---- MODULE Spec2Model ----
(***************************************************************************)
(* Live prediction and reconciliation pipeline of the sports picker:       *)
(* ModelLoader, FeatureExtractor and SportsPredictor (src/src/predictor.py),*)
(* PredictionScorer (src/src/scorer.py), the prediction store              *)
(* (src/src/tools/supabase_client.py) and the market types                 *)
(* (src/src/tools/polymarket_client.py).                                   *)
(*                                                                         *)
(* Probabilities, prices and confidences are fixed-point numbers in units  *)
(* of 1/200: 200 is 1.0, 100 is 0.5, 190 is 0.95.  Python's None is the    *)
(* string "None" where the other values are strings, and NoPrice where     *)
(* they are numbers.  An exception leaving a function is the string        *)
(* "raise" in place of its return value.                                   *)
(***************************************************************************)
EXTENDS Integers, Sequences, FiniteSets, TLC

VARIABLES
    env,      \* what the outside world supplies to the calls of one run
    models,   \* the ModelLoader's fields
    store,    \* the predictions table / predictions.json, in insertion order
    metrics,  \* the remote model_metrics table, keyed by model_type
    last      \* the most recent call: its name, its arguments, what it returned

vars == <<env, models, store, metrics, last>>

\* ------------------------------------------------------------------ numbers
One == 200
Half == 100
NearOne == 190
NoPrice == -1
NoDate == 0
NoDateKey == 9999
MetricsLimit == 1000

None == "None"
NoId == <<"None", 0>>
Raise == "raise"

Min(S) == CHOOSE x \in S : \A y \in S : x <= y

Abs(x) == IF x < 0 THEN -x ELSE x

\* ------------------------------------------------------------------ strings
\* the outcome labels a token can carry
Labels == {"Yes", "No", "YES"}

\* str.lower() on the labels
Lower(s) ==
    CASE s \in {"Yes", "YES", "yes"} -> "yes"
      [] s \in {"No", "NO", "no"} -> "no"
      [] OTHER -> s

\* str.capitalize() on the labels: first character upper, the rest lower
Capitalize(s) ==
    CASE s \in {"Yes", "YES", "yes"} -> "Yes"
      [] s \in {"No", "NO", "no"} -> "No"
      [] OTHER -> s

\* ------------------------------------------------------------------ markets
\* A question is the set of keywords that occur in it as substrings.
SPORT_KEYWORDS == <<
    [sport |-> "nba", kws |-> {"nba", "basketball", "lakers", "celtics", "warriors", "bulls"}],
    [sport |-> "nfl", kws |-> {"nfl", "football", "chiefs", "eagles", "cowboys", "patriots"}],
    [sport |-> "mlb", kws |-> {"mlb", "baseball", "yankees", "dodgers", "red sox", "cubs"}],
    [sport |-> "nhl", kws |-> {"nhl", "hockey", "bruins", "rangers", "penguins", "maple leafs"}],
    [sport |-> "mma", kws |-> {"ufc", "mma", "fight", "bellator"}],
    [sport |-> "soccer", kws |-> {"soccer", "mls", "premier league", "la liga"}] >>

SPORTS_TAGS == {"sports", "nba", "nfl", "mlb", "nhl", "soccer", "football", "basketball",
                "baseball", "hockey", "tennis", "golf", "mma", "ufc", "boxing", "f1",
                "racing", "olympics", "esports"}

\* FeatureExtractor._detect_sport: the first sport, in table order, one of whose
\* keywords occurs in the question
_detect_sport(question) ==
    LET hits == {i \in 1..Len(SPORT_KEYWORDS) : SPORT_KEYWORDS[i].kws \cap question # {}}
    IN  IF hits = {} THEN "other" ELSE SPORT_KEYWORDS[Min(hits)].sport

\* Market.is_sports_market: a sports tag among the tags or in the question
is_sports_market(market) ==
    \E tag \in SPORTS_TAGS : tag \in market.tags \/ tag \in market.question

Token(outcome, price) == [outcome |-> outcome, price |-> price]

\* end_date_iso is a day number, NoDate when the market has none
Market(id, question, tags, tokens, closed, accepting, end) ==
    [condition_id |-> id, question |-> question, tags |-> tags, tokens |-> tokens,
     closed |-> closed, accepting_orders |-> accepting, end_date_iso |-> end]

\* ------------------------------------------------------------------ scorer: outcome
\* Token is a pydantic model: its fields are attributes and it has no get method,
\* so token.get(...) raises AttributeError.
TokenHasGet == FALSE

\* the two scans of get_market_outcome over tokens that answer get(): the first
\* token priced exactly 1.0, else the first token priced above 0.95
ScanTokens(tokens) ==
    LET exact == {i \in 1..Len(tokens) :
                    tokens[i].price # NoPrice /\ tokens[i].price = One}
        near  == {i \in 1..Len(tokens) :
                    tokens[i].price # NoPrice /\ tokens[i].price > NearOne}
    IN  IF exact # {} THEN Capitalize(tokens[Min(exact)].outcome)
        ELSE IF near # {} THEN Capitalize(tokens[Min(near)].outcome)
        ELSE None

\* PredictionScorer.get_market_outcome
get_market_outcome(market) ==
    IF ~market.closed THEN None
    ELSE IF market.tokens = << >> THEN None
    ELSE IF ~TokenHasGet THEN Raise
    ELSE ScanTokens(market.tokens)

\* ------------------------------------------------------------------ loader
\* the ordered feature schema of artifacts/prepared_data/feature_names.json
Schema == <<"home_yes_price", "away_yes_price", "is_home_favorite", "sport_nba", "sport_nfl">>

\* ModelLoader.__init__ and SportsPredictor.__init__: nothing loaded
NewModels ==
    [historical_model |-> None, sentiment_model |-> None, meta_learner |-> None,
     feature_names |-> [isNone |-> TRUE, names |-> << >>], _use_tf |-> FALSE,
     _initialized |-> FALSE]

\* truth value of feature_names: None and the empty list are both false
HasNames(ms) == ~ms.feature_names.isNone /\ ms.feature_names.names # << >>

\* what load_all finds on disk: the schema files are "ok", "missing"
\* (FileNotFoundError) or "unreadable" (any other error of open or json.load);
\* each model artifact loads or fails
Artifacts ==
    [schema : {"ok", "missing", "unreadable"}, historical : BOOLEAN, keras : BOOLEAN,
     joblib : BOOLEAN, meta : BOOLEAN]

\* variant: a loaded meta-learner counts as success too
load_all_any(ms, a) ==
    IF a.schema = "unreadable" THEN [models |-> ms, ret |-> Raise]
    ELSE
        LET names == IF a.schema = "ok" THEN Schema ELSE << >>
            sent  == IF a.keras THEN "keras" ELSE IF a.joblib THEN "joblib"
                     ELSE ms.sentiment_model
            tf    == IF a.keras THEN TRUE ELSE IF a.joblib THEN FALSE ELSE ms._use_tf
            after == [ms EXCEPT
                        !.feature_names = [isNone |-> FALSE, names |-> names],
                        !.historical_model = IF a.historical THEN "loaded" ELSE @,
                        !.sentiment_model = sent,
                        !._use_tf = tf,
                        !.meta_learner = IF a.meta THEN "loaded" ELSE @]
        IN  [models |-> after,
             ret |-> IF a.historical \/ a.keras \/ a.joblib \/ a.meta
                     THEN "True" ELSE "False"]

\* ModelLoader.load_all: the loader's fields afterwards and what it returned.
\* Only FileNotFoundError is caught around the schema files.
load_all(ms, a) ==
    IF a.schema = "unreadable" THEN [models |-> ms, ret |-> Raise]
    ELSE
        LET names == IF a.schema = "ok" THEN Schema ELSE << >>
            sent  == IF a.keras THEN "keras" ELSE IF a.joblib THEN "joblib"
                     ELSE ms.sentiment_model
            tf    == IF a.keras THEN TRUE ELSE IF a.joblib THEN FALSE ELSE ms._use_tf
            after == [ms EXCEPT
                        !.feature_names = [isNone |-> FALSE, names |-> names],
                        !.historical_model = IF a.historical THEN "loaded" ELSE @,
                        !.sentiment_model = sent,
                        !._use_tf = tf,
                        !.meta_learner = IF a.meta THEN "loaded" ELSE @]
        IN  [models |-> after,
             ret |-> IF a.historical \/ a.keras \/ a.joblib THEN "True" ELSE "False"]

\* ModelLoader.models_loaded
models_loaded(ms) ==
    [historical |-> ms.historical_model # None,
     sentiment |-> ms.sentiment_model # None,
     hybrid |-> ms.meta_learner # None]

\* SportsPredictor.initialize
initialize(ms, a) ==
    LET r == load_all(ms, a)
    IN  IF r.ret = Raise THEN r
        ELSE [models |-> [r.models EXCEPT !._initialized = TRUE], ret |-> "True"]

\* ------------------------------------------------------------------ features
\* the loop of extract_features over the tokens: the last priced "yes" token and
\* the last priced "no" token win
RECURSIVE ScanPrices(_, _, _)
ScanPrices(tokens, yes, no) ==
    IF tokens = << >> THEN [yes |-> yes, no |-> no]
    ELSE LET t == Head(tokens)
             o == Lower(t.outcome)
         IN  IF o = "yes" /\ t.price # NoPrice THEN ScanPrices(Tail(tokens), t.price, no)
             ELSE IF o = "no" /\ t.price # NoPrice THEN ScanPrices(Tail(tokens), yes, t.price)
             ELSE ScanPrices(Tail(tokens), yes, no)

\* FeatureExtractor.extract_features
extract_features(market) ==
    LET p == ScanPrices(market.tokens, Half, Half)
    IN  [market_id |-> market.condition_id,
         sport |-> _detect_sport(market.question),
         home_yes_price |-> p.yes,
         away_yes_price |-> p.no,
         price_spread |-> Abs(p.yes - p.no),
         is_home_favorite |-> p.yes > p.no,
         market_edge |-> p.yes - Half]

\* ------------------------------------------------------------------ to_model_input
\* A name is <<"sport_", s>> when it starts with "sport_" and <<"", name>> when not.
\* A feature dict is the sequence of its <<name, value>> items in insertion order;
\* a value is <<"num", x>>, <<"bool", 0 or 1>>, <<"none", 0>> or <<"str", s>>.
Keys(features) == {features[i][1] : i \in 1..Len(features)}

\* features[name], for a name among the keys
Item(features, name) ==
    features[CHOOSE i \in 1..Len(features) : features[i][1] = name][2]

\* features.get("sport")
SportOf(features) ==
    IF <<"", "sport">> \in Keys(features) THEN Item(features, <<"", "sport">>)
    ELSE <<"none", 0>>

\* float(val) raises ValueError for this schema name: its value is a text
FloatRaises(features, name) ==
    /\ name[1] # "sport_"
    /\ name \in Keys(features)
    /\ Item(features, name)[1] = "str"

\* the value appended for one schema name
ValueFor(features, name) ==
    IF name[1] = "sport_"
    THEN (IF SportOf(features) = <<"str", name[2]>> THEN One ELSE 0)
    ELSE IF name \in Keys(features)
    THEN LET val == Item(features, name)
         IN  CASE val[1] = "bool" -> (IF val[2] = 1 THEN One ELSE 0)
               [] val[1] = "none" -> 0
               [] val[1] = "num" -> val[2]
    ELSE 0

\* variant: the values are taken in the order of the dict's items
to_model_input_dict_order(features, feature_names) ==
    LET InSchema(item) == \E i \in 1..Len(feature_names) : feature_names[i] = item[1]
        items == SelectSeq(features, InSchema)
    IN  [i \in 1..Len(items) |-> ValueFor(features, items[i][1])]

\* FeatureExtractor.to_model_input: the row of values, or the exception of float()
to_model_input(features, feature_names) ==
    IF \E i \in 1..Len(feature_names) : FloatRaises(features, feature_names[i])
    THEN <<Raise>>
    ELSE [i \in 1..Len(feature_names) |-> ValueFor(features, feature_names[i])]

\* ------------------------------------------------------------------ ensemble
\* what one model answers for one feature vector: a probability or an exception
ProbOuts == {60, 160}

Inference == {[raises |-> TRUE, p |-> Half]} \cup {[raises |-> FALSE, p |-> x] : x \in ProbOuts}

\* variant: a failed historical inference leaves 0.0 behind instead of 0.5
hist_conf_zero(ms, out) ==
    IF ms.historical_model # None /\ HasNames(ms)
    THEN IF out.raises THEN 0 ELSE out.p
    ELSE Half

\* predict_market, the historical stage: 0.5 unless the model and the schema are
\* there and the inference succeeds
hist_conf(ms, out) ==
    IF ms.historical_model # None /\ HasNames(ms)
    THEN IF out.raises THEN Half ELSE out.p
    ELSE Half

\* variant: the sentiment stage asks its model whether or not a schema is loaded
sent_conf_noschema(ms, out) ==
    IF ms.sentiment_model # None
    THEN IF out.raises THEN Half ELSE out.p
    ELSE Half

\* predict_market, the sentiment stage (both call shapes give the probability)
sent_conf(ms, out) ==
    IF ms.sentiment_model # None /\ HasNames(ms)
    THEN IF out.raises THEN Half ELSE out.p
    ELSE Half

\* variant: without a meta-learner the hybrid stage always averages the stages
hybrid_conf_mean(ms, features, h, s, out) ==
    IF ms.meta_learner # None
    THEN IF out.raises THEN (h + s) \div 2 ELSE out.p
    ELSE (h + s) \div 2

\* predict_market, the hybrid stage: the meta-learner when there is one (the mean
\* of the stages when it raises), else the market's yes price
hybrid_conf(ms, features, h, s, out) ==
    IF ms.meta_learner # None
    THEN IF out.raises THEN (h + s) \div 2 ELSE out.p
    ELSE features.home_yes_price

\* variant: a tie at 0.5 is labelled "Yes"
predicted_outcome_ge(hybrid) == IF hybrid >= Half THEN "Yes" ELSE "No"

\* predict_market, the label
predicted_outcome(hybrid) == IF hybrid > Half THEN "Yes" ELSE "No"

\* the Prediction model
Prediction(market_id, sport, outcome, h, s, hy) ==
    [id |-> NoId, market_id |-> market_id, sport |-> sport, predicted_outcome |-> outcome,
     historical_confidence |-> h, sentiment_confidence |-> s, hybrid_confidence |-> hy,
     actual_outcome |-> None, is_correct |-> None, resolved_at |-> None]

\* SportsPredictor.predict_market: << >> is None, <<p>> is the Prediction p
predict_market(ms, market, ho, so, mo) ==
    LET features == extract_features(market)
        h  == hist_conf(ms, ho)
        s  == sent_conf(ms, so)
        hy == hybrid_conf(ms, features, h, s, mo)
    IN  IF features.sport = "other" THEN << >>
        ELSE << Prediction(market.condition_id, features.sport, predicted_outcome(hy),
                           h, s, hy) >>

\* notebooks' weighted_average_ensemble, with the weight in units of 1/200
weighted_average_ensemble(hist_prob, sent_prob, hist_weight) ==
    (hist_weight * hist_prob + (One - hist_weight) * sent_prob) \div One

\* ------------------------------------------------------------------ market fetch
SortKey(m) == IF m.end_date_iso = NoDate THEN NoDateKey ELSE m.end_date_iso

\* list.sort(key=...): stable, ascending
RECURSIVE InsertSorted(_, _)
InsertSorted(sorted, m) ==
    IF sorted = << >> THEN <<m>>
    ELSE IF SortKey(Head(sorted)) <= SortKey(m)
         THEN <<Head(sorted)>> \o InsertSorted(Tail(sorted), m)
         ELSE <<m>> \o sorted

RECURSIVE SortByEndDate(_)
SortByEndDate(ms) ==
    IF ms = << >> THEN << >>
    ELSE InsertSorted(SortByEndDate(SubSeq(ms, 1, Len(ms) - 1)), ms[Len(ms)])

KeepSports(m) == is_sports_market(m)

\* PolymarketClient.get_sports_markets on the markets get_all_markets returned
get_sports_markets(all_markets) == SortByEndDate(SelectSeq(all_markets, KeepSports))

\* ------------------------------------------------------------------ store
\* the predictions table of the remote store and the local predictions.json
EmptyStore == [remote |-> << >>, local |-> << >>]

Take(seq, n) == SubSeq(seq, 1, IF Len(seq) < n THEN Len(seq) ELSE n)

Reverse(seq) == [i \in 1..Len(seq) |-> seq[Len(seq) + 1 - i]]

\* truth value of an Optional[str]
Truthy(x) == x # None /\ x # ""

\* variant: the market is the key, and an unresolved row of the same market is
\* replaced
_save_prediction_local_by_market(st, p, io) ==
    LET same == {i \in 1..Len(st.local) :
                    /\ st.local[i].market_id = p.market_id
                    /\ st.local[i].actual_outcome = None}
        id == IF same = {} THEN <<"local", Len(st.local) + 1>>
              ELSE st.local[Min(same)].id
        q == [p EXCEPT !.id = id]
    IN  IF io = "fail" THEN [store |-> st, ret |-> << >>, raised |-> TRUE]
        ELSE IF same = {}
        THEN [store |-> [st EXCEPT !.local = Append(@, q)], ret |-> <<q>>,
              raised |-> FALSE]
        ELSE [store |-> [st EXCEPT !.local[Min(same)] = q], ret |-> <<q>>,
              raised |-> FALSE]

\* SupabaseClient._save_prediction_local; io = "fail" is an error reading or
\* writing the file
_save_prediction_local(st, p, io) ==
    IF io = "fail" THEN [store |-> st, ret |-> << >>, raised |-> TRUE]
    ELSE LET q == [p EXCEPT !.id = <<"local", Len(st.local) + 1>>]
         IN  [store |-> [st EXCEPT !.local = Append(@, q)], ret |-> <<q>>,
              raised |-> FALSE]

\* SupabaseClient.save_prediction; io = "ok", "remote_fail" (the insert raises,
\* the local file takes the row) or "fail" (the local file fails too)
save_prediction(st, connected, p, io) ==
    IF connected /\ io = "ok"
    THEN LET q == [p EXCEPT !.id = <<"remote", Len(st.remote) + 1>>]
         IN  [store |-> [st EXCEPT !.remote = Append(@, q)], ret |-> <<q>>,
              raised |-> FALSE]
    ELSE _save_prediction_local(st, p, io)

\* SupabaseClient._get_predictions_local: file order, cut at limit
_get_predictions_local(st, limit, sport, only_resolved) ==
    LET Keep(p) == /\ ~(Truthy(sport) /\ p.sport # sport)
                   /\ ~(only_resolved /\ ~Truthy(p.actual_outcome))
    IN  Take(SelectSeq(st.local, Keep), limit)

\* SupabaseClient.get_predictions: remotely the newest rows first, cut at limit
get_predictions(st, connected, limit, sport, only_resolved, io) ==
    LET Keep(p) == /\ ~(Truthy(sport) /\ p.sport # sport)
                   /\ ~(only_resolved /\ p.actual_outcome = None)
    IN  IF connected /\ io = "ok"
        THEN Take(Reverse(SelectSeq(st.remote, Keep)), limit)
        ELSE _get_predictions_local(st, limit, sport, only_resolved)

\* bool as "True" / "False", so that Optional[bool] can be None
Bool(b) == IF b THEN "True" ELSE "False"

\* variant: the time of resolution is not recorded
Resolved_late(p, actual) ==
    [p EXCEPT !.actual_outcome = actual,
              !.is_correct = Bool(Lower(p.predicted_outcome) = Lower(actual))]

\* the three fields a resolution sets, together
Resolved(p, actual) ==
    [p EXCEPT !.actual_outcome = actual,
              !.is_correct = Bool(Lower(p.predicted_outcome) = Lower(actual)),
              !.resolved_at = "now"]

IndexOf(rows, id) == {i \in 1..Len(rows) : rows[i].id = id}

\* SupabaseClient._resolve_prediction_local: << >> is None
_resolve_prediction_local(st, id, actual) ==
    LET hit == IndexOf(st.local, id)
    IN  IF hit = {} THEN [store |-> st, ret |-> << >>]
        ELSE LET i == Min(hit)
                 q == Resolved(st.local[i], actual)
             IN  [store |-> [st EXCEPT !.local[i] = q], ret |-> <<q>>]

\* variant: a failing remote update has already written the outcome
resolve_prediction_partial(st, connected, id, actual, io) ==
    IF connected
    THEN LET hit == IndexOf(st.remote, id)
         IN  IF hit = {} THEN [store |-> st, ret |-> << >>]
             ELSE LET i == Min(hit)
                      q == Resolved(st.remote[i], actual)
                  IN  IF io # "ok"
                      THEN [store |-> [st EXCEPT !.remote[i].actual_outcome = actual],
                            ret |-> << >>]
                      ELSE [store |-> [st EXCEPT !.remote[i] = q],
                            ret |-> <<[q EXCEPT !.resolved_at = st.remote[i].resolved_at]>>]
    ELSE _resolve_prediction_local(st, id, actual)

\* SupabaseClient.resolve_prediction; remotely the row is updated with all three
\* fields, the returned object carries the outcome and the flag
resolve_prediction(st, connected, id, actual, io) ==
    IF connected
    THEN LET hit == IndexOf(st.remote, id)
         IN  IF io # "ok" \/ hit = {} THEN [store |-> st, ret |-> << >>]
             ELSE LET i == Min(hit)
                      q == Resolved(st.remote[i], actual)
                  IN  [store |-> [st EXCEPT !.remote[i] = q],
                       ret |-> <<[q EXCEPT !.resolved_at = st.remote[i].resolved_at]>>]
    ELSE _resolve_prediction_local(st, id, actual)

Rows(st) == Len(st.remote) + Len(st.local)

\* ------------------------------------------------------------------ scorer
\* PredictionScorer.score_prediction: the resolved Prediction, or the one given
\* when the store returned nothing
score_prediction(st, connected, prediction, actual, io) ==
    LET r == resolve_prediction(st, connected, prediction.id, actual, io)
    IN  [store |-> r.store, ret |-> IF r.ret # << >> THEN r.ret[1] ELSE prediction]

ZeroResults == [total |-> 0, scored |-> 0, correct |-> 0, wrong |-> 0, still_pending |-> 0]

\* market_lookup: the last market of each condition_id
Lookup(markets, id) ==
    LET hit == {i \in 1..Len(markets) : markets[i].condition_id = id}
    IN  IF hit = {} THEN << >> ELSE <<markets[CHOOSE i \in hit : \A j \in hit : j <= i]>>

IsPending(p) == p.actual_outcome = None

\* the loop of score_pending_predictions over the pending predictions; an
\* exception of get_market_outcome leaves the loop and the function
RECURSIVE ScoreLoop(_, _, _, _, _, _)
ScoreLoop(st, connected, pending, markets, results, io) ==
    IF pending = << >> THEN [store |-> st, ret |-> results, raised |-> FALSE]
    ELSE
        LET p == Head(pending)
            market == Lookup(markets, p.market_id)
        IN  IF market = << >>
            THEN ScoreLoop(st, connected, Tail(pending), markets,
                           [results EXCEPT !.still_pending = @ + 1], io)
            ELSE
                LET outcome == get_market_outcome(market[1])
                IN  IF outcome = Raise
                    THEN [store |-> st, ret |-> results, raised |-> TRUE]
                    ELSE IF outcome = None
                    THEN ScoreLoop(st, connected, Tail(pending), markets,
                                   [results EXCEPT !.still_pending = @ + 1], io)
                    ELSE
                        LET r == score_prediction(st, connected, p, outcome, io)
                            ok == r.ret.is_correct = "True"
                        IN  ScoreLoop(r.store, connected, Tail(pending), markets,
                                [results EXCEPT !.scored = @ + 1,
                                    !.correct = IF ok THEN @ + 1 ELSE @,
                                    !.wrong = IF ok THEN @ ELSE @ + 1], io)

\* variant: every fetched prediction is taken as pending
PendingOf_all(st, connected, limit, sport, io) ==
    get_predictions(st, connected, limit, sport, FALSE, io)

\* the pending predictions score_pending_predictions works on
PendingOf(st, connected, limit, sport, io) ==
    SelectSeq(get_predictions(st, connected, limit, sport, FALSE, io), IsPending)

\* PredictionScorer.score_pending_predictions; fetch is what get_all_markets gives:
\* the markets, or an exception once the retries are used up
score_pending_predictions(st, connected, limit, sport, fetch, io) ==
    LET pending == PendingOf(st, connected, limit, sport, io)
    IN  IF pending = << >> THEN [store |-> st, ret |-> ZeroResults, raised |-> FALSE]
        ELSE IF fetch.raises THEN [store |-> st, ret |-> ZeroResults, raised |-> TRUE]
        ELSE ScoreLoop(st, connected, pending, get_sports_markets(fetch.markets),
                       [ZeroResults EXCEPT !.total = Len(pending)], io)

ModelTypes == <<"historical", "sentiment", "hybrid">>

Confidence(p, model_type) ==
    CASE model_type = "historical" -> p.historical_confidence
      [] model_type = "sentiment" -> p.sentiment_confidence
      [] OTHER -> p.hybrid_confidence

Count(rows, Test(_)) == Cardinality({i \in 1..Len(rows) : Test(rows[i])})

\* correct / total as a fixed-point number, 0.0 when total is 0
Accuracy(correct, total) == IF total > 0 THEN (correct * One) \div total ELSE 0

ModelMetrics(model_type, total, correct) ==
    [model_type |-> model_type, accuracy_30d |-> Accuracy(correct, total),
     total_predictions |-> total, correct_predictions |-> correct]

\* the ModelMetrics update_metrics computes for one stage from the stage's own label
StageMetrics(resolved, model_type) ==
    LET Counted(p) == Truthy(p.actual_outcome)
        Right(p) == /\ Truthy(p.actual_outcome)
                    /\ Lower(predicted_outcome(Confidence(p, model_type)))
                         = Lower(p.actual_outcome)
    IN  ModelMetrics(model_type, Count(resolved, Counted), Count(resolved, Right))

\* variant: the counts are added to the row already in the table
update_model_metrics_add(st, table, connected, model_type, io) ==
    LET predictions == get_predictions(st, connected, MetricsLimit, None, TRUE, io)
        IsRight(p) == p.is_correct = "True"
        old == {r \in table : r.model_type = model_type}
        was == IF old = {} THEN ModelMetrics(model_type, 0, 0) ELSE CHOOSE r \in old : TRUE
        row == ModelMetrics(model_type, was.total_predictions + Len(predictions),
                            was.correct_predictions + Count(predictions, IsRight))
    IN  IF predictions = << >> THEN [table |-> table, ret |-> << >>]
        ELSE [table |-> IF connected /\ io = "ok"
                        THEN {r \in table : r.model_type # model_type} \cup {row}
                        ELSE table,
              ret |-> <<row>>]

\* SupabaseClient.update_model_metrics: the row it computes, from is_correct, and
\* the table after the upsert; << >> is None
update_model_metrics(st, table, connected, model_type, io) ==
    LET predictions == get_predictions(st, connected, MetricsLimit, None, TRUE, io)
        IsRight(p) == p.is_correct = "True"
        row == ModelMetrics(model_type, Len(predictions), Count(predictions, IsRight))
    IN  IF predictions = << >> THEN [table |-> table, ret |-> << >>]
        ELSE [table |-> IF connected /\ io = "ok"
                        THEN {r \in table : r.model_type # model_type} \cup {row}
                        ELSE table,
              ret |-> <<row>>]

RECURSIVE UpsertAll(_, _, _, _, _)
UpsertAll(st, table, connected, types, io) ==
    IF types = << >> THEN table
    ELSE UpsertAll(st, update_model_metrics(st, table, connected, Head(types), io).table,
                   connected, Tail(types), io)

\* PredictionScorer.update_metrics: the dict it returns (empty when nothing is
\* resolved) and the model_metrics table afterwards
update_metrics(st, table, connected, io) ==
    LET resolved == get_predictions(st, connected, MetricsLimit, None, TRUE, io)
    IN  IF resolved = << >> THEN [table |-> table, ret |-> {}]
        ELSE [table |-> UpsertAll(st, table, connected, ModelTypes, io),
              ret |-> {StageMetrics(resolved, ModelTypes[i]) : i \in 1..Len(ModelTypes)}]

\* SupabaseClient.get_model_metrics: the rows of the model_metrics table, or three
\* empty ModelMetrics without a connection or when the select fails
get_model_metrics(table, connected, io) ==
    IF connected /\ io = "ok" THEN table
    ELSE {ModelMetrics(ModelTypes[i], 0, 0) : i \in 1..Len(ModelTypes)}

\* PredictionScorer.get_accuracy_summary: accuracy, total and correct by model type,
\* kept in the shape of ModelMetrics
get_accuracy_summary(table, connected, io) == get_model_metrics(table, connected, io)

\* ------------------------------------------------------------------ inputs
MarketIds == {"m1", "m2"}

Questions == {{"nba"}, {"football", "nba"}, {"tennis"}}

PredictTokens == {
    << >>,
    <<Token("Yes", 160), Token("No", 40)>>,
    <<Token("YES", 60)>>,
    <<Token("No", 40), Token("Yes", NoPrice)>>,
    <<Token("Yes", 100), Token("No", 100)>> }

PredictMarkets ==
    {Market("m1", q, {}, t, FALSE, TRUE, NoDate) : q \in Questions, t \in PredictTokens}

Start == [op |-> "start"]

\* ------------------------------------------------------------------ predict_market
InitPredict ==
    /\ env \in [artifacts : Artifacts, market : PredictMarkets,
                hist_out : Inference, sent_out : Inference, meta_out : Inference]
    /\ models = NewModels
    /\ store = EmptyStore
    /\ metrics = {}
    /\ last = Start

Initialize ==
    LET r == initialize(models, env.artifacts)
    IN  /\ models' = r.models
        /\ last' = [op |-> "initialize", ret |-> r.ret]
        /\ UNCHANGED <<env, store, metrics>>

LoadAll ==
    LET r == load_all(models, env.artifacts)
    IN  /\ models' = r.models
        /\ last' = [op |-> "load_all", ret |-> r.ret, status |-> models_loaded(r.models)]
        /\ UNCHANGED <<env, store, metrics>>

PredictMarket ==
    /\ last' = [op |-> "predict_market",
                ret |-> predict_market(models, env.market, env.hist_out, env.sent_out,
                                       env.meta_out)]
    /\ UNCHANGED <<env, models, store, metrics>>

NextPredict == Initialize \/ LoadAll \/ PredictMarket

SpecPredict == InitPredict /\ [][NextPredict]_vars

\* ------------------------------------------------------------------ get_market_outcome
MaxTokens == 2

OutcomePrices == {NoPrice, 0, 120, 194, One}

OutcomeTokens == {Token(o, pr) : o \in Labels, pr \in OutcomePrices}

TokenLists == UNION {[1..n -> OutcomeTokens] : n \in 0..MaxTokens}

OutcomeMarkets ==
    {Market("m1", {"nba"}, {}, t, c, FALSE, NoDate) : t \in TokenLists, c \in BOOLEAN}

InitOutcome ==
    /\ env \in [market : OutcomeMarkets]
    /\ models = NewModels
    /\ store = EmptyStore
    /\ metrics = {}
    /\ last = Start

GetMarketOutcome ==
    /\ last' = [op |-> "get_market_outcome", ret |-> get_market_outcome(env.market)]
    /\ UNCHANGED <<env, models, store, metrics>>

NextOutcome == GetMarketOutcome

SpecOutcome == InitOutcome /\ [][NextOutcome]_vars

\* ------------------------------------------------------------------ orchestrator
\* variant: the first exception ends the loop
RECURSIVE PredictEach_abort(_, _, _, _, _)
PredictEach_abort(ms, batch, k, booms, out) ==
    IF k > Len(batch) \/ booms[k] THEN << >>
    ELSE predict_market(ms, batch[k], out, out, out)
         \o PredictEach_abort(ms, batch, k + 1, booms, out)

\* the loop of predict_current_markets: booms[k] says that predict_market raises
\* for the k-th market of the batch; the exception is logged and the loop goes on
RECURSIVE PredictEach(_, _, _, _, _)
PredictEach(ms, batch, k, booms, out) ==
    IF k > Len(batch) THEN << >>
    ELSE (IF booms[k] THEN << >> ELSE predict_market(ms, batch[k], out, out, out))
         \o PredictEach(ms, batch, k + 1, booms, out)

\* the sports markets that accept orders and, with a sport given, are of that
\* sport: active_markets before the loop's slice
Filtered(all_markets, sport) ==
    LET Accepting(m) == m.accepting_orders
        OfSport(m) == _detect_sport(m.question) = Lower(sport)
        active == SelectSeq(get_sports_markets(all_markets), Accepting)
    IN  IF Truthy(sport) THEN SelectSeq(active, OfSport) ELSE active

\* variant: the sport asked for is not looked at
BatchOf_any_sport(all_markets, sport, max_markets) ==
    Take(Filtered(all_markets, None), max_markets)

\* the markets predict_current_markets iterates: sports markets by end date, those
\* accepting orders, those of the sport asked for, the first max_markets of them
\* (max_markets is a count, 0 or more)
BatchOf(all_markets, sport, max_markets) ==
    Take(Filtered(all_markets, sport), max_markets)

\* a list of predictions with the most confident first
ByConfidence(preds) ==
    LET n == Len(preds)
        perm == CHOOSE f \in [1..n -> 1..n] :
                    /\ \A i, j \in 1..n : i # j => f[i] # f[j]
                    /\ \A i, j \in 1..n : i < j =>
                          \/ preds[f[i]].hybrid_confidence > preds[f[j]].hybrid_confidence
                          \/ /\ preds[f[i]].hybrid_confidence = preds[f[j]].hybrid_confidence
                             /\ f[i] < f[j]
    IN  [i \in 1..n |-> preds[perm[i]]]

\* variant: the list is returned with the most confident prediction first
predict_current_markets_by_confidence(ms, a, fetch, sport, max_markets, booms, out) ==
    LET init == IF ms._initialized THEN [models |-> ms, ret |-> "True"]
                ELSE initialize(ms, a)
    IN  IF init.ret = Raise \/ fetch.raises
        THEN [models |-> init.models, raised |-> TRUE, ret |-> << >>]
        ELSE [models |-> init.models, raised |-> FALSE,
              ret |-> ByConfidence(PredictEach(init.models,
                                               BatchOf(fetch.markets, sport, max_markets),
                                               1, booms, out))]

\* SportsPredictor.predict_current_markets: the loader afterwards and the list
\* returned, or the exception of initialize or of the market fetch
predict_current_markets(ms, a, fetch, sport, max_markets, booms, out) ==
    LET init == IF ms._initialized THEN [models |-> ms, ret |-> "True"]
                ELSE initialize(ms, a)
    IN  IF init.ret = Raise \/ fetch.raises
        THEN [models |-> init.models, raised |-> TRUE, ret |-> << >>]
        ELSE [models |-> init.models, raised |-> FALSE,
              ret |-> PredictEach(init.models, BatchOf(fetch.markets, sport, max_markets),
                                  1, booms, out)]

\* the loop of save_predictions: an exception of save_prediction is logged and
\* the loop goes on
RECURSIVE SaveEach(_, _, _, _, _, _)
SaveEach(st, connected, predictions, k, ios, saved) ==
    IF k > Len(predictions) THEN [store |-> st, ret |-> saved]
    ELSE LET r == save_prediction(st, connected, predictions[k], ios[k])
         IN  SaveEach(r.store, connected, predictions, k + 1, ios,
                      IF r.raised THEN saved ELSE saved + 1)

\* SportsPredictor.save_predictions
save_predictions(st, connected, predictions, ios) ==
    SaveEach(st, connected, predictions, 1, ios, 0)

\* SportsPredictor.run: the loader and the store afterwards and the list returned,
\* or the exception of predict_current_markets; nothing is saved for an empty list
run(ms, a, fetch, sport, save, max_markets, booms, out, st, connected, ios) ==
    LET r == predict_current_markets(ms, a, fetch, sport, max_markets, booms, out)
    IN  [models |-> r.models, raised |-> r.raised, ret |-> r.ret,
         store |-> IF ~r.raised /\ save /\ r.ret # << >>
                   THEN save_predictions(st, connected, r.ret, ios).store
                   ELSE st]

MaxBatch == 2

SaveIO == {"ok", "remote_fail", "fail"}

\* the schema and the historical model on disk; an unreadable schema file
BatchArtifacts ==
    {[schema |-> "ok", historical |-> TRUE, keras |-> FALSE, joblib |-> FALSE,
      meta |-> FALSE],
     [schema |-> "unreadable", historical |-> TRUE, keras |-> FALSE, joblib |-> FALSE,
      meta |-> FALSE]}

\* the last two: a sports market of no known sport (tag only), and a market that is
\* not a sports market though its question names a team
BatchMarkets ==
    {Market("m1", {"nba"}, {}, <<Token("Yes", 160), Token("No", 40)>>, FALSE, TRUE, 2),
     Market("m2", {"nba"}, {}, <<Token("Yes", 60), Token("No", 140)>>, FALSE, TRUE, 1),
     Market("m2", {"football"}, {}, <<Token("Yes", 160)>>, FALSE, TRUE, NoDate),
     Market("m1", {"nba"}, {}, <<Token("Yes", 160)>>, TRUE, FALSE, 1),
     Market("m1", {"tennis"}, {"sports"}, <<Token("Yes", 160)>>, FALSE, TRUE, 1),
     Market("m2", {"lakers"}, {}, <<Token("Yes", 160)>>, FALSE, TRUE, 1)}

BatchFetches ==
    {[raises |-> TRUE, markets |-> << >>]}
    \cup {[raises |-> FALSE, markets |-> ms] :
            ms \in UNION {[1..n -> BatchMarkets] : n \in 0..MaxBatch}}

InitBatch ==
    /\ env \in [artifacts : BatchArtifacts, fetch : BatchFetches, sport : {None, "nba"},
                max_markets : 1..MaxBatch, booms : [1..MaxBatch -> BOOLEAN],
                ios : [1..MaxBatch -> SaveIO], connected : BOOLEAN,
                out : {[raises |-> FALSE, p |-> 160]}]
    /\ models = NewModels
    /\ store = EmptyStore
    /\ metrics = {}
    /\ last = Start

PredictCurrentMarkets ==
    LET r == predict_current_markets(models, env.artifacts, env.fetch, env.sport,
                                     env.max_markets, env.booms, env.out)
    IN  /\ models' = r.models
        /\ last' = [op |-> "predict_current_markets", raised |-> r.raised, ret |-> r.ret]
        /\ UNCHANGED <<env, store, metrics>>

\* save_predictions on the list the last predict_current_markets returned
SavePredictions ==
    /\ last.op = "predict_current_markets"
    /\ ~last.raised
    /\ Rows(store) + Len(last.ret) <= MaxBatch
    /\ LET r == save_predictions(store, env.connected, last.ret, env.ios)
       IN  /\ store' = r.store
           /\ last' = [op |-> "save_predictions", ret |-> r.ret, predictions |-> last.ret,
                       before |-> store]
    /\ UNCHANGED <<env, models, metrics>>

\* the whole pipeline, with saving or without
Run ==
    /\ Rows(store) + Len(BatchOf(env.fetch.markets, env.sport, env.max_markets)) <= MaxBatch
    /\ \E save \in BOOLEAN :
        LET r == run(models, env.artifacts, env.fetch, env.sport, save, env.max_markets,
                     env.booms, env.out, store, env.connected, env.ios)
        IN  /\ models' = r.models
            /\ store' = r.store
            /\ last' = [op |-> "run", raised |-> r.raised, ret |-> r.ret, save |-> save,
                        before |-> store]
    /\ UNCHANGED <<env, metrics>>

NextBatch == PredictCurrentMarkets \/ SavePredictions \/ Run

SpecBatch == InitBatch /\ [][NextBatch]_vars

\* ------------------------------------------------------------------ scoring
MaxStore == 2
MaxLimit == 2
MaxFetch == 2

\* the loader states the stored predictions were made under: nothing loaded, or
\* the schema and the historical model
ScoreModels ==
    {NewModels,
     initialize(NewModels, [schema |-> "ok", historical |-> TRUE, keras |-> FALSE,
                            joblib |-> FALSE, meta |-> FALSE]).models}

ScoreQuotes ==
    {Market(id, {"nba"}, {}, <<Token("Yes", pr)>>, FALSE, TRUE, NoDate) :
        id \in MarketIds, pr \in {60, 160}}

\* the Predictions predict_market builds for these quotes
NewPredictions ==
    {predict_market(ms, m, [raises |-> FALSE, p |-> 60], [raises |-> TRUE, p |-> Half],
                    [raises |-> TRUE, p |-> Half])[1] : ms \in ScoreModels, m \in ScoreQuotes}

\* the later states of the markets: settled, still trading, closed without tokens,
\* closed without a winning price, settled but not a sports market
ScoreSnapshots ==
    {Market("m1", {"nba"}, {}, <<Token("Yes", One), Token("No", NoPrice)>>, TRUE, FALSE, 1),
     Market("m1", {"nba"}, {}, <<Token("Yes", 120), Token("No", 80)>>, FALSE, TRUE, 2),
     Market("m2", {"nba"}, {}, << >>, TRUE, FALSE, NoDate),
     Market("m2", {"nba"}, {}, <<Token("Yes", 120), Token("No", 80)>>, TRUE, FALSE, NoDate),
     Market("m2", {"lakers"}, {}, <<Token("No", One)>>, TRUE, FALSE, NoDate)}

Fetches ==
    {[raises |-> TRUE, markets |-> << >>]}
    \cup {[raises |-> FALSE, markets |-> ms] :
            ms \in UNION {[1..n -> ScoreSnapshots] : n \in 0..MaxFetch}}

RemoteIO == {"ok", "remote_fail"}

Ids(st) == {st.remote[i].id : i \in 1..Len(st.remote)}
           \cup {st.local[i].id : i \in 1..Len(st.local)}

\* the store a read goes to
ReadFrom(connected, io) == IF connected /\ io = "ok" THEN "remote" ELSE "local"

InitScore ==
    /\ env \in [connected : BOOLEAN]
    /\ models = NewModels
    /\ store = EmptyStore
    /\ metrics = {}
    /\ last = Start

SavePrediction ==
    \E p \in NewPredictions, io \in SaveIO :
        LET r == save_prediction(store, env.connected, p, io)
        IN  /\ Rows(store) < MaxStore
            /\ store' = r.store
            /\ last' = [op |-> "save_prediction", raised |-> r.raised, ret |-> r.ret]
            /\ UNCHANGED <<env, models, metrics>>

ResolvePrediction ==
    \E id \in Ids(store), actual \in {"Yes", "No"}, io \in RemoteIO :
        LET r == resolve_prediction(store, env.connected, id, actual, io)
        IN  /\ store' = r.store
            /\ last' = [op |-> "resolve_prediction", ret |-> r.ret]
            /\ UNCHANGED <<env, models, metrics>>

\* score_prediction on a Prediction as the store holds it
ScorePrediction ==
    \E where \in {"remote", "local"}, actual \in {"Yes", "No"}, io \in RemoteIO :
        \E i \in 1..Len(store[where]) :
            LET r == score_prediction(store, env.connected, store[where][i], actual, io)
            IN  /\ store' = r.store
                /\ last' = [op |-> "score_prediction", ret |-> <<r.ret>>]
                /\ UNCHANGED <<env, models, metrics>>

ScorePending ==
    \E limit \in 1..MaxLimit, fetch \in Fetches, io \in RemoteIO :
        LET r == score_pending_predictions(store, env.connected, limit, None, fetch, io)
        IN  /\ store' = r.store
            /\ last' = [op |-> "score_pending_predictions", raised |-> r.raised,
                        ret |-> r.ret, fetch_raised |-> fetch.raises,
                        read |-> ReadFrom(env.connected, io),
                        pending |-> PendingOf(store, env.connected, limit, None, io)]
            /\ UNCHANGED <<env, models, metrics>>

UpdateMetrics ==
    \E io \in RemoteIO :
        LET r == update_metrics(store, metrics, env.connected, io)
        IN  /\ metrics' = r.table
            /\ last' = [op |-> "update_metrics", ret |-> r.ret, io |-> io,
                        read |-> ReadFrom(env.connected, io)]
            /\ UNCHANGED <<env, models, store>>

GetAccuracySummary ==
    \E io \in RemoteIO :
        /\ last' = [op |-> "get_accuracy_summary",
                    ret |-> get_accuracy_summary(metrics, env.connected, io)]
        /\ UNCHANGED <<env, models, store, metrics>>

NextScore ==
    \/ SavePrediction
    \/ ResolvePrediction
    \/ ScorePrediction
    \/ ScorePending
    \/ UpdateMetrics
    \/ GetAccuracySummary

SpecScore == InitScore /\ [][NextScore]_vars

\* ------------------------------------------------------------------ large stores
\* stores of about as many resolved predictions as update_metrics asks for
MaxOver == 2

\* the i-th of n resolved predictions, the last wrong of them resolved "No"
ResolvedRow(where, i, n, wrong) ==
    LET m == Market("m1", {"nba"}, {}, <<Token("Yes", 160)>>, FALSE, TRUE, NoDate)
        p == predict_market(NewModels, m, [raises |-> TRUE, p |-> Half],
                            [raises |-> TRUE, p |-> Half], [raises |-> TRUE, p |-> Half])[1]
    IN  Resolved([p EXCEPT !.id = <<where, i>>], IF i > n - wrong THEN "No" ELSE "Yes")

InitLimit ==
    /\ env \in [connected : BOOLEAN]
    /\ models = NewModels
    /\ \E n \in (MetricsLimit - MaxOver)..(MetricsLimit + MaxOver), wrong \in 0..MaxOver :
        store = IF env.connected
                THEN [remote |-> [i \in 1..n |-> ResolvedRow("remote", i, n, wrong)],
                      local |-> << >>]
                ELSE [remote |-> << >>,
                      local |-> [i \in 1..n |-> ResolvedRow("local", i, n, wrong)]]
    /\ metrics = {}
    /\ last = Start

NextLimit == UpdateMetrics \/ GetAccuracySummary

SpecLimit == InitLimit /\ [][NextLimit]_vars

\* ------------------------------------------------------------------ _request
MaxRetries == 3

\* what one session.request ... response.json() does: a JSON response, an exception
\* that is a requests RequestException (connection, timeout, HTTP status), or an
\* exception that is none (it is not caught)
Outcomes == {"ok", "error", "other"}

\* last_error before any failure
NoError == <<None, 0>>

\* variant: the wait grows linearly
Backoff_linear(attempt) == 2 * attempt

\* the seconds slept after the failed attempt of this number
Backoff(attempt) == 2 ^ attempt

\* PolymarketClient._request at the head of its loop
InitRequest ==
    /\ env \in [max_retries : 0..MaxRetries, outcomes : [0..MaxRetries - 1 -> Outcomes]]
    /\ models = NewModels
    /\ store = EmptyStore
    /\ metrics = {}
    /\ last = [op |-> "_request", pc |-> "try", attempt |-> 0, last_error |-> NoError,
               sent |-> << >>, slept |-> << >>, ret |-> <<None, NoError>>]

\* one pass of the loop body up to the sleep
SendRequest ==
    /\ last.op = "_request" /\ last.pc = "try"
    /\ last.attempt < env.max_retries
    /\ LET outcome == env.outcomes[last.attempt]
           sent == Append(last.sent, last.attempt)
       IN  last' =
             CASE outcome = "ok" ->
                    [last EXCEPT !.sent = sent, !.pc = "done",
                                 !.ret = <<"response", <<"ok", last.attempt>> >>]
               [] outcome = "other" ->
                    [last EXCEPT !.sent = sent, !.pc = "done",
                                 !.ret = <<Raise, <<"other", last.attempt>> >>]
               [] OTHER ->
                    [last EXCEPT !.sent = sent,
                                 !.last_error = <<"error", last.attempt>>,
                                 !.pc = IF last.attempt < env.max_retries - 1
                                        THEN "sleep" ELSE "try",
                                 !.attempt = IF last.attempt < env.max_retries - 1
                                             THEN @ ELSE @ + 1]
    /\ UNCHANGED <<env, models, store, metrics>>

\* time.sleep(2 ** attempt), then the next pass
Sleep ==
    /\ last.op = "_request" /\ last.pc = "sleep"
    /\ last' = [last EXCEPT !.slept = Append(@, Backoff(last.attempt)),
                            !.attempt = @ + 1, !.pc = "try"]
    /\ UNCHANGED <<env, models, store, metrics>>

\* the loop is over: raise last_error or Exception("Request failed")
RaiseLast ==
    /\ last.op = "_request" /\ last.pc = "try"
    /\ last.attempt >= env.max_retries
    /\ last' = [last EXCEPT !.pc = "done",
                            !.ret = <<Raise, IF last.last_error # NoError THEN last.last_error
                                             ELSE <<"Request failed", 0>> >>]
    /\ UNCHANGED <<env, models, store, metrics>>

NextRequest == SendRequest \/ Sleep \/ RaiseLast

SpecRequest == InitRequest /\ [][NextRequest]_vars

\* one thread runs the loop; every request ends by its timeout and every sleep ends
FairRequest == SpecRequest /\ WF_vars(NextRequest)

\* ------------------------------------------------------------------ get_all_markets
MaxPages == 3

\* what get_markets does for one page: it raises (the request failed after its
\* retries), or it answers one market and a next cursor, none, empty or a cursor
PageOutcomes ==
    {[raises |-> TRUE, next_cursor |-> None]}
    \cup {[raises |-> FALSE, next_cursor |-> c] : c \in {None, "", "cursor"}}

\* the provider's answer to the request of this number; it answers every later
\* request as the last one listed
PageAt(page) == env.pages[IF page < MaxPages THEN page ELSE MaxPages - 1]

\* variant: the loop runs while there is a cursor
MorePages_uncapped(page, max_pages) == TRUE

\* for page in range(max_pages)
MorePages(page, max_pages) == page < max_pages

\* PolymarketClient.get_all_markets at the head of its loop
InitPages ==
    /\ env \in [max_pages : 0..MaxPages, pages : [0..MaxPages - 1 -> PageOutcomes]]
    /\ models = NewModels
    /\ store = EmptyStore
    /\ metrics = {}
    /\ last = [op |-> "get_all_markets", pc |-> "loop", page |-> 0, next_cursor |-> None,
               asked |-> << >>, all_markets |-> 0, ret |-> None]

\* one pass of the loop: get_markets(next_cursor), extend, break without a cursor
FetchPage ==
    /\ last.op = "get_all_markets" /\ last.pc = "loop"
    /\ MorePages(last.page, env.max_pages)
    /\ LET response == PageAt(last.page)
           asked == Append(last.asked, last.next_cursor)
       IN  last' =
             IF response.raises
             THEN [last EXCEPT !.asked = asked, !.pc = "done", !.ret = Raise]
             ELSE IF ~Truthy(response.next_cursor)
             THEN [last EXCEPT !.asked = asked, !.all_markets = @ + 1, !.pc = "done",
                               !.ret = "return"]
             ELSE [last EXCEPT !.asked = asked, !.all_markets = @ + 1,
                               !.next_cursor = response.next_cursor, !.page = @ + 1]
    /\ UNCHANGED <<env, models, store, metrics>>

\* the loop is over: return all_markets
ReturnAll ==
    /\ last.op = "get_all_markets" /\ last.pc = "loop"
    /\ ~MorePages(last.page, env.max_pages)
    /\ last' = [last EXCEPT !.pc = "done", !.ret = "return"]
    /\ UNCHANGED <<env, models, store, metrics>>

NextPages == FetchPage \/ ReturnAll

SpecPages == InitPages /\ [][NextPages]_vars

\* one thread runs the loop; every get_markets call ends (bounded retries, timeout)
FairPages == SpecPages /\ WF_vars(NextPages)

\* ------------------------------------------------------------------ feature vectors
MaxFeatures == 3
MaxSchema == 2

\* features of a dict and the values each can have: the detected sport, a number
\* or null, a boolean
FeatureValues ==
    {<< <<"", "sport">>, <<"str", "nba">> >>, << <<"", "sport">>, <<"str", "other">> >>,
     << <<"", "home_yes_price">>, <<"num", 160>> >>, << <<"", "home_yes_price">>, <<"none", 0>> >>,
     << <<"", "is_home_favorite">>, <<"bool", 1>> >>, << <<"", "is_home_favorite">>, <<"bool", 0>> >>}

\* the dicts: items in any insertion order, no key twice
Dicts ==
    {d \in UNION {[1..n -> FeatureValues] : n \in 0..MaxFeatures} :
        \A i, j \in 1..Len(d) : i # j => d[i][1] # d[j][1]}

\* the names a schema is made of: one-hot sport columns, two features of the dict
\* and one the dict does not have
SchemaNames ==
    {<<"sport_", "nba">>, <<"sport_", "nfl">>, <<"", "home_yes_price">>,
     <<"", "is_home_favorite">>, <<"", "home_wins">>}

Schemas == UNION {[1..n -> SchemaNames] : n \in 0..MaxSchema}

InitVector ==
    /\ env \in [features : Dicts, feature_names : Schemas]
    /\ models = NewModels
    /\ store = EmptyStore
    /\ metrics = {}
    /\ last = Start

ToModelInput ==
    /\ last' = [op |-> "to_model_input",
                ret |-> to_model_input(env.features, env.feature_names)]
    /\ UNCHANGED <<env, models, store, metrics>>

NextVector == ToModelInput

SpecVector == InitVector /\ [][NextVector]_vars

\* ------------------------------------------------------------------ two local writers
MaxWriters == 2

Writers == 1..MaxWriters

\* the predictions file before the writers start: empty, or one row saved earlier
WriterStores ==
    {EmptyStore}
    \cup {_save_prediction_local(EmptyStore, p, "ok").store : p \in NewPredictions}

\* Two calls of _save_prediction_local on one predictions file, each by a writer of
\* its own (two processes, or two threads of one); nothing in the code locks the
\* file, so the reads and the writes of the two happen in any order.
InitWriters ==
    /\ env \in [connected : {FALSE}, predictions : [Writers -> NewPredictions]]
    /\ models = NewModels
    /\ store \in WriterStores
    /\ metrics = {}
    /\ last = [op |-> "_save_prediction_local",
               pc |-> [w \in Writers |-> "start"],
               predictions |-> [w \in Writers |-> << >>],
               ret |-> [w \in Writers |-> << >>]]

\* json.load of the file into the writer's own list
ReadFile(w) ==
    /\ last.op = "_save_prediction_local" /\ last.pc[w] = "start"
    /\ last' = [last EXCEPT !.pc[w] = "read", !.predictions[w] = store.local]
    /\ UNCHANGED <<env, models, store, metrics>>

\* the id from the length of the writer's list, the append, and json.dump of the
\* list over the file
WriteFile(w) ==
    /\ last.op = "_save_prediction_local" /\ last.pc[w] = "read"
    /\ LET r == _save_prediction_local([store EXCEPT !.local = last.predictions[w]],
                                       env.predictions[w], "ok")
       IN  /\ store' = r.store
           /\ last' = [last EXCEPT !.pc[w] = "done", !.ret[w] = r.ret]
    /\ UNCHANGED <<env, models, metrics>>

NextWriters == \E w \in Writers : ReadFile(w) \/ WriteFile(w)

SpecWriters == InitWriters /\ [][NextWriters]_vars

\* ------------------------------------------------------------------ two scoring runs
MaxRuns == 2

Runs == 1..MaxRuns

\* the pending predictions in the store when the runs start
OverlapPredictions ==
    UNION {[1..n -> {p \in NewPredictions : p.historical_confidence = Half}] :
             n \in 1..MaxStore}

\* the markets fetched by both runs: none, or one
OverlapFetches == {f \in Fetches : ~f.raises /\ Len(f.markets) <= 1}

\* Two invocations of score_pending_predictions on one store (two processes);
\* nothing in the code locks the store or a row, so the steps of the two happen in
\* any order.
InitOverlap ==
    /\ env \in [connected : BOOLEAN, io : RemoteIO, limit : 1..MaxLimit,
                fetch : OverlapFetches, predictions : OverlapPredictions]
    /\ models = NewModels
    /\ store = save_predictions(EmptyStore, env.connected, env.predictions,
                                [k \in 1..MaxStore |-> "ok"]).store
    /\ metrics = {}
    /\ last = [op |-> "overlap",
               pc |-> [v \in Runs |-> "start"],
               pending |-> [v \in Runs |-> << >>],
               k |-> [v \in Runs |-> 1],
               results |-> [v \in Runs |-> ZeroResults],
               raised |-> [v \in Runs |-> FALSE],
               wrote |-> [v \in Runs |-> {}]]

\* get_predictions and the pending filter; with nothing pending the run returns
ReadPending(v) ==
    /\ last.op = "overlap" /\ last.pc[v] = "start"
    /\ LET pending == PendingOf(store, env.connected, env.limit, None, env.io)
       IN  last' = [last EXCEPT !.pending[v] = pending,
                                !.pc[v] = IF pending = << >> THEN "done" ELSE "fetch"]
    /\ UNCHANGED <<env, models, store, metrics>>

\* get_sports_markets and the results dict
FetchMarkets(v) ==
    /\ last.op = "overlap" /\ last.pc[v] = "fetch"
    /\ last' = IF env.fetch.raises
               THEN [last EXCEPT !.pc[v] = "done", !.raised[v] = TRUE]
               ELSE [last EXCEPT !.pc[v] = "loop",
                                 !.results[v] = [ZeroResults EXCEPT
                                                   !.total = Len(last.pending[v])]]
    /\ UNCHANGED <<env, models, store, metrics>>

\* one pass of the loop over the pending predictions the run read
ScoreNext(v) ==
    /\ last.op = "overlap" /\ last.pc[v] = "loop"
    /\ last.k[v] <= Len(last.pending[v])
    /\ LET prediction == last.pending[v][last.k[v]]
           market == Lookup(get_sports_markets(env.fetch.markets), prediction.market_id)
           outcome == IF market = << >> THEN None ELSE get_market_outcome(market[1])
           r == score_prediction(store, env.connected, prediction, outcome, env.io)
           ok == r.ret.is_correct = "True"
       IN  IF outcome = Raise
           THEN /\ last' = [last EXCEPT !.pc[v] = "done", !.raised[v] = TRUE]
                /\ store' = store
           ELSE IF outcome = None
           THEN /\ last' = [last EXCEPT !.k[v] = @ + 1,
                                        !.results[v].still_pending = @ + 1]
                /\ store' = store
           ELSE /\ last' = [last EXCEPT !.k[v] = @ + 1,
                                        !.results[v].scored = @ + 1,
                                        !.results[v].correct = IF ok THEN @ + 1 ELSE @,
                                        !.results[v].wrong = IF ok THEN @ ELSE @ + 1,
                                        !.wrote[v] = IF r.ret # prediction
                                                     THEN @ \cup {prediction.id} ELSE @]
                /\ store' = r.store
    /\ UNCHANGED <<env, models, metrics>>

\* the loop is over: return results
ReturnResults(v) ==
    /\ last.op = "overlap" /\ last.pc[v] = "loop"
    /\ last.k[v] > Len(last.pending[v])
    /\ last' = [last EXCEPT !.pc[v] = "done"]
    /\ UNCHANGED <<env, models, store, metrics>>

NextOverlap ==
    \E v \in Runs : ReadPending(v) \/ FetchMarkets(v) \/ ScoreNext(v) \/ ReturnResults(v)

SpecOverlap == InitOverlap /\ [][NextOverlap]_vars

\* ------------------------------------------------------------------ claims: predict_market
Predicted == last.op = "predict_market" /\ last.ret # << >>

\* C1: with no historical model, no sentiment model and no meta-learner loaded, the
\* Prediction's hybrid confidence is the extracted yes price of the market and both
\* stage confidences are 0.5.
C1_DegradeToYesPrice ==
    (Predicted /\ models.historical_model = None /\ models.sentiment_model = None
        /\ models.meta_learner = None)
    => /\ last.ret[1].hybrid_confidence = extract_features(env.market).home_yes_price
       /\ last.ret[1].historical_confidence = Half
       /\ last.ret[1].sentiment_confidence = Half

C1_Witness ==
    /\ Predicted
    /\ models.historical_model = None /\ models.sentiment_model = None
    /\ models.meta_learner = None
    /\ env.market.tokens = <<Token("Yes", 160), Token("No", 40)>>
    /\ last.ret[1].hybrid_confidence = 160

\* C2: with no meta-learner but a stage model loaded, the hybrid confidence is the
\* weighted average of the two stage confidences with weight 0.5.
C2_WeightedAverageWhenStageLoaded ==
    (Predicted /\ models.meta_learner = None
        /\ (models.historical_model # None \/ models.sentiment_model # None))
    => last.ret[1].hybrid_confidence =
         weighted_average_ensemble(last.ret[1].historical_confidence,
                                   last.ret[1].sentiment_confidence, Half)

\* C3: the label is "Yes" exactly when the hybrid confidence is above 0.5, and "No"
\* otherwise, a hybrid confidence of exactly 0.5 included.
C3_LabelIffAboveHalf ==
    Predicted
    => /\ last.ret[1].predicted_outcome \in {"Yes", "No"}
       /\ last.ret[1].predicted_outcome = "Yes" <=> last.ret[1].hybrid_confidence > Half

C3_Witness ==
    /\ Predicted
    /\ last.ret[1].hybrid_confidence = Half
    /\ last.ret[1].predicted_outcome = "No"

\* C8: when a stage model raises at inference, predict_market still returns a
\* Prediction, the failing stage's confidence is 0.5 and the other stage's
\* confidence is what its model answered.
C8_StageFailureIsLocal ==
    LET histUsed == models.historical_model # None /\ HasNames(models)
        sentUsed == models.sentiment_model # None /\ HasNames(models)
    IN  (last.op = "predict_market" /\ _detect_sport(env.market.question) # "other")
        => /\ last.ret # << >>
           /\ (histUsed /\ env.hist_out.raises)
                => last.ret[1].historical_confidence = Half
           /\ (sentUsed /\ env.sent_out.raises)
                => last.ret[1].sentiment_confidence = Half
           /\ (histUsed /\ ~env.hist_out.raises)
                => last.ret[1].historical_confidence = env.hist_out.p
           /\ (sentUsed /\ ~env.sent_out.raises)
                => last.ret[1].sentiment_confidence = env.sent_out.p

C8_Witness ==
    /\ Predicted
    /\ models.historical_model # None /\ models.sentiment_model # None
    /\ HasNames(models)
    /\ env.hist_out.raises /\ ~env.sent_out.raises
    /\ last.ret[1].historical_confidence = Half
    /\ last.ret[1].sentiment_confidence = 160

\* C9: when the meta-learner raises, the hybrid confidence is the one the hybrid
\* stage gives for the same market and stage confidences with no meta-learner loaded.
C9_MetaFailureIsAbsence ==
    (Predicted /\ models.meta_learner # None /\ env.meta_out.raises)
    => last.ret[1].hybrid_confidence =
         predict_market([models EXCEPT !.meta_learner = None], env.market,
                        env.hist_out, env.sent_out, env.meta_out)[1].hybrid_confidence

C19_LoadAllNeverRaises ==
    last.op = "load_all"
    => /\ last.ret # Raise
       /\ last.status = [historical |-> env.artifacts.historical,
                         sentiment |-> env.artifacts.keras \/ env.artifacts.joblib,
                         hybrid |-> env.artifacts.meta]

\* C20, as stated: a stage's confidence is what its model answers whenever the
\* model is loaded and its inference does not fail.
C20_StageUsesLoadedModel ==
    Predicted
    => /\ (models.historical_model # None /\ ~env.hist_out.raises)
            => last.ret[1].historical_confidence = env.hist_out.p
       /\ (models.sentiment_model # None /\ ~env.sent_out.raises)
            => last.ret[1].sentiment_confidence = env.sent_out.p

\* C20, amended: a stage's confidence is what its model answers whenever the model
\* and a non-empty feature schema are loaded and the inference does not fail, and
\* 0.5 when the model or the schema is not loaded.
C20_StageUsesModelWithSchema ==
    Predicted
    => /\ (models.historical_model # None /\ HasNames(models) /\ ~env.hist_out.raises)
            => last.ret[1].historical_confidence = env.hist_out.p
       /\ (models.sentiment_model # None /\ HasNames(models) /\ ~env.sent_out.raises)
            => last.ret[1].sentiment_confidence = env.sent_out.p
       /\ (models.historical_model = None \/ ~HasNames(models))
            => last.ret[1].historical_confidence = Half
       /\ (models.sentiment_model = None \/ ~HasNames(models))
            => last.ret[1].sentiment_confidence = Half

C20_Witness ==
    /\ Predicted
    /\ models.historical_model # None /\ models.sentiment_model # None
    /\ ~HasNames(models) /\ ~models.feature_names.isNone
    /\ ~env.hist_out.raises /\ ~env.sent_out.raises
    /\ last.ret[1].historical_confidence = Half
    /\ last.ret[1].sentiment_confidence = Half

\* ------------------------------------------------------------------ claims: get_market_outcome
\* C4: on a closed market get_market_outcome returns the label of the first token
\* priced exactly 1.0, else of the first token priced above 0.95, else no outcome.
C4_FirstWinningToken ==
    (last.op = "get_market_outcome" /\ env.market.closed)
    => last.ret = ScanTokens(env.market.tokens)

\* ------------------------------------------------------------------ claims: scoring
IsResolved(p) == ~IsPending(p)

ResolvedRowsKept(where) ==
    \A i \in 1..Len(store[where]) :
        IsResolved(store[where][i])
        => i <= Len(store'[where]) /\ store'[where][i] = store[where][i]

C5_RunLeavesResolvedAlone ==
    last'.op = "score_pending_predictions"
    => /\ ResolvedRowsKept("remote")
       /\ ResolvedRowsKept("local")
       /\ \A k \in 1..Len(last'.pending) : IsPending(last'.pending[k])
       /\ ~last'.raised
            => /\ last'.ret.total = Len(last'.pending)
               /\ last'.ret.total <= Count(store[last'.read], IsPending)
               /\ last'.ret.scored <= last'.ret.total

C5_MetricsCountOnce ==
    last.op = "update_metrics"
    => \A m \in last.ret : m.total_predictions = Count(store[last.read], IsResolved)

C6_EveryPendingClassified ==
    (last.op = "score_pending_predictions" /\ ~last.fetch_raised)
    => /\ ~last.raised
       /\ last.ret.total = Len(last.pending)
       /\ last.ret.total = last.ret.scored + last.ret.still_pending
       /\ last.ret.scored = last.ret.correct + last.ret.wrong

\* C7: after update_metrics against the remote store, the model_metrics row of each
\* stage is that stage's own accuracy over the resolved Predictions.
C7_RecordedStageAccuracy ==
    (last.op = "update_metrics" /\ env.connected /\ last.io = "ok" /\ last.ret # {})
    => \A i \in 1..Len(ModelTypes) :
         StageMetrics(get_predictions(store, TRUE, MetricsLimit, None, TRUE, "ok"),
                      ModelTypes[i]) \in metrics

\* ------------------------------------------------------------------ claims: lifecycle
\* the fields of a Prediction other than the three a resolution sets
Core(p) == [p EXCEPT !.actual_outcome = None, !.is_correct = None, !.resolved_at = None]

Unresolved(p) == p.actual_outcome = None /\ p.is_correct = None /\ p.resolved_at = None

\* the operations of the predictor and of the scorer on the store
PipelineOps ==
    {"save_prediction", "score_prediction", "score_pending_predictions",
     "update_metrics", "get_accuracy_summary"}

Lifecycle(where) ==
    /\ Len(store'[where]) >= Len(store[where])
    /\ \A i \in 1..Len(store[where]) :
        /\ i <= Len(store'[where])
        /\ Core(store'[where][i]) = Core(store[where][i])
        /\ IsResolved(store[where][i]) => store'[where][i] = store[where][i]
    /\ \A i \in (Len(store[where]) + 1)..Len(store'[where]) :
        Unresolved(store'[where][i])

\* C11: under every operation of the predictor and of the scorer a stored
\* Prediction stays in the store with its identity, a new one enters unresolved,
\* and a resolved one keeps its actual_outcome, is_correct and resolved_at.
C11_ResolvedOnceNeverDeleted ==
    [][last'.op \in PipelineOps => Lifecycle("remote") /\ Lifecycle("local")]_vars

NoWinner(m) ==
    \A k \in 1..Len(m.tokens) :
        m.tokens[k].price = NoPrice \/ m.tokens[k].price <= NearOne

\* the market of the prediction is among the fetched ones and closed, and none of
\* its tokens is priced 1.0 or above 0.95
Unclear(markets, p) ==
    LET m == Lookup(markets, p.market_id)
    IN  m # << >> /\ m[1].closed /\ NoWinner(m[1])

\* C12: a run of score_pending_predictions all of whose pending Predictions belong
\* to closed markets without a winning price returns with every one of them counted
\* as still_pending, none scored, and the store as it was.
C12_UnclearMarketStaysPending ==
    \A limit \in 1..MaxLimit, fetch \in Fetches, io \in RemoteIO :
        LET pending == PendingOf(store, env.connected, limit, None, io)
            r == score_pending_predictions(store, env.connected, limit, None, fetch, io)
        IN  (/\ ~fetch.raises
             /\ pending # << >>
             /\ \A k \in 1..Len(pending) :
                    Unclear(get_sports_markets(fetch.markets), pending[k]))
            => /\ ~r.raised
               /\ r.ret.still_pending = Len(pending)
               /\ r.ret.scored = 0
               /\ r.store = store

StoredRows == {store.remote[i] : i \in 1..Len(store.remote)}
              \cup {store.local[i] : i \in 1..Len(store.local)}

\* C13: in every state of the store a Prediction has actual_outcome, is_correct and
\* resolved_at all null or all set, and when set is_correct says whether the
\* predicted outcome equals the actual outcome, both lower-cased.
C13_ResolvedFieldsTogether ==
    \A p \in StoredRows :
        /\ (p.actual_outcome = None) <=> (p.is_correct = None)
        /\ (p.is_correct = None) <=> (p.resolved_at = None)
        /\ p.actual_outcome # None
            => p.is_correct = Bool(Lower(p.predicted_outcome) = Lower(p.actual_outcome))

C13_Witness ==
    /\ last.op = "score_prediction"
    /\ \E p \in StoredRows :
        /\ p.predicted_outcome = "Yes" /\ p.actual_outcome = "No"
        /\ p.is_correct = "False" /\ p.resolved_at # None
        /\ last.ret[1].id = p.id

\* C14: a resolve_prediction that returns nothing leaves every stored Prediction,
\* the one it was asked to resolve included, as it was.
C14_FailedResolutionChangesNothing ==
    [][(last'.op = "resolve_prediction" /\ last'.ret = << >>) => store' = store]_vars

C14_Witness ==
    /\ last.op = "resolve_prediction" /\ last.ret = << >>
    /\ env.connected
    /\ Len(store.remote) = 1 /\ store.local = << >>
    /\ Unresolved(store.remote[1])

\* ------------------------------------------------------------------ claims: metrics
\* the predictions table of a remote store that holds the rows of the local file
Mirror(st) == [remote |-> st.local, local |-> << >>]

\* the entry of one stage in a summary, an absent entry read as empty
SummaryRow(summary, model_type) ==
    LET hit == {r \in summary : r.model_type = model_type}
    IN  IF hit = {} THEN ModelMetrics(model_type, 0, 0) ELSE CHOOSE r \in hit : TRUE

\* C15: on the local store update_metrics followed by get_accuracy_summary gives
\* every stage the total, correct and accuracy that the same two calls give on a
\* remote store holding the same predictions.
C15_LocalSummaryAsRemote ==
    ~env.connected =>
        \A io \in RemoteIO : \A i \in 1..Len(ModelTypes) :
            SummaryRow(get_accuracy_summary(
                           update_metrics(store, metrics, FALSE, io).table, FALSE, io),
                       ModelTypes[i])
            = SummaryRow(get_accuracy_summary(
                             update_metrics(Mirror(store), {}, TRUE, "ok").table, TRUE, "ok"),
                         ModelTypes[i])

\* update_metrics run again at once returns what it returned and leaves the
\* model_metrics table as it is
C16_RerunGivesSame ==
    last.op = "update_metrics" =>
        LET again == update_metrics(store, metrics, env.connected, last.io)
        IN  again.ret = last.ret /\ again.table = metrics

\* a step that resolves nothing leaves what update_metrics returns unchanged
\* (nothing is to compare when the step changed neither the store nor the table)
C16_StepKeepsMetrics ==
    \/ store' = store /\ metrics' = metrics
    \/ (\A where \in {"remote", "local"} :
            SelectSeq(store'[where], IsResolved) = SelectSeq(store[where], IsResolved))
        => \A io \in RemoteIO :
            update_metrics(store', metrics', env.connected, io).ret
                = update_metrics(store, metrics, env.connected, io).ret

\* C16: two runs of update_metrics with no Prediction resolved in between produce
\* the same ModelMetrics for every stage, returned and recorded.
C16_UpdateMetricsIsStable == []C16_RerunGivesSame /\ [][C16_StepKeepsMetrics]_vars

C16_Witness ==
    /\ last.op = "update_metrics" /\ last.io = "ok" /\ env.connected
    /\ Cardinality(last.ret) = 3 /\ Cardinality(metrics) = 3
    /\ Len(store.remote) = 2 /\ Count(store.remote, IsResolved) = 1

WellFormed(m) ==
    /\ 0 <= m.correct_predictions /\ m.correct_predictions <= m.total_predictions
    /\ m.accuracy_30d = IF m.total_predictions > 0
                        THEN (m.correct_predictions * One) \div m.total_predictions
                        ELSE 0

\* C17: every ModelMetrics update_metrics returns or records has
\* 0 <= correct <= total and accuracy = correct / total (0.0 when total = 0), and
\* counts every resolved Prediction of the store it was computed from.
C17_MetricsOverAllResolved ==
    /\ \A m \in metrics : WellFormed(m)
    /\ last.op = "update_metrics" =>
        /\ \A m \in last.ret :
            WellFormed(m) /\ m.total_predictions = Count(store[last.read], IsResolved)
        /\ (env.connected /\ last.io = "ok") =>
            \A m \in metrics : m.total_predictions = Count(store.remote, IsResolved)

\* ------------------------------------------------------------------ claims: batches
\* the markets the batch of the current inputs iterates over
BatchHere == BatchOf(env.fetch.markets, env.sport, env.max_markets)

\* the positions of the batch whose prediction neither raises nor is None
Survivors ==
    {k \in 1..Len(BatchHere) :
        ~env.booms[k] /\ _detect_sport(BatchHere[k].question) # "other"}

\* the predictions of a save_predictions call whose save does not raise
Saveable == {k \in 1..Len(last.predictions) : env.ios[k] # "fail"}

\* the rows a save_predictions call added to one side of the store
Added(where) == SubSeq(store[where], Len(last.before[where]) + 1, Len(store[where]))

\* C10: one item's failure never aborts a batch.  predict_current_markets raises
\* only when loading or the market fetch does, and returns, in order, a prediction
\* for every market of the batch whose own prediction did not fail;
\* save_predictions stores every prediction whose own save did not fail and
\* returns their number, which is the number of rows the store gained.
C10_ItemFailureNeverAborts ==
    /\ last.op = "predict_current_markets" =>
        /\ last.raised => (env.fetch.raises \/ env.artifacts.schema = "unreadable")
        /\ ~last.raised =>
            /\ Len(last.ret) = Cardinality(Survivors)
            /\ \A k \in Survivors :
                last.ret[Cardinality({i \in Survivors : i <= k})].market_id
                    = BatchHere[k].condition_id
    /\ last.op = "save_predictions" =>
        /\ last.ret = Cardinality(Saveable)
        /\ Rows(store) - Rows(last.before) = last.ret
        /\ \A k \in Saveable :
            \E where \in {"remote", "local"} : \E i \in 1..Len(Added(where)) :
                Added(where)[i].market_id = last.predictions[k].market_id

\* a batch of two whose first market fails is still predicted for the second, and
\* of two predictions whose first save fails the second is still saved
C10_Witness ==
    /\ last.op = "predict_current_markets"
    /\ Len(BatchHere) = 2 /\ env.booms[1] /\ ~env.booms[2]
    /\ Len(last.ret) = 1

C10_SaveWitness ==
    /\ last.op = "save_predictions"
    /\ Len(last.predictions) = 2 /\ env.ios[1] = "fail" /\ env.ios[2] # "fail"
    /\ last.ret = 1

\* ------------------------------------------------------------------ claims: the batch
\* active_markets of the current inputs, before the slice
FilteredHere == Filtered(env.fetch.markets, env.sport)

\* f places the predictions of a list, in order, on markets of a list; with no
\* meta-learner loaded a prediction's hybrid confidence is its market's yes price
Places(f, preds, markets) ==
    /\ \A i \in 1..Len(preds) :
          /\ preds[i].market_id = markets[f[i]].condition_id
          /\ preds[i].sport = _detect_sport(markets[f[i]].question)
          /\ preds[i].hybrid_confidence = extract_features(markets[f[i]]).home_yes_price
    /\ \A i, j \in 1..Len(preds) : i < j => f[i] < f[j]

\* C21: predict_current_markets returns its predictions in the relative order of
\* the filtered market list it iterated (the order of get_sports_markets after the
\* filters); the list is never reordered by confidence.
C21_OrderOfFilteredMarkets ==
    (last.op = "predict_current_markets" /\ ~last.raised) =>
        \E f \in [1..Len(last.ret) -> 1..Len(FilteredHere)] :
            Places(f, last.ret, FilteredHere)

\* two predictions are returned and the first is the less confident one
C21_Witness ==
    /\ last.op = "predict_current_markets" /\ ~last.raised
    /\ Len(last.ret) = 2
    /\ last.ret[1].hybrid_confidence < last.ret[2].hybrid_confidence

\* what C22 says of the market m a returned prediction belongs to
Eligible(m) ==
    /\ is_sports_market(m)
    /\ m.accepting_orders
    /\ _detect_sport(m.question) # "other"
    /\ Truthy(env.sport) => _detect_sport(m.question) = Lower(env.sport)

\* C22: every Prediction predict_current_markets returns belongs to a fetched market
\* that is sports-related, accepts orders, has a detected sport other than "other"
\* and, with a sport filter given, has that sport; at most max_markets markets are
\* evaluated, so at most max_markets predictions are returned.
C22_OnlyEligibleMarkets ==
    (last.op = "predict_current_markets" /\ ~last.raised) =>
        /\ \A i \in 1..Len(last.ret) :
              \E k \in 1..Len(env.fetch.markets) :
                  /\ Eligible(env.fetch.markets[k])
                  /\ env.fetch.markets[k].condition_id = last.ret[i].market_id
                  /\ _detect_sport(env.fetch.markets[k].question) = last.ret[i].sport
        /\ Len(BatchHere) <= env.max_markets
        /\ Len(last.ret) <= env.max_markets

\* a sport filter is given, an accepting market of another sport was fetched next
\* to one of the sport, and more markets pass the filters than the cap lets through
C22_Witness ==
    /\ last.op = "predict_current_markets" /\ ~last.raised
    /\ Truthy(env.sport)
    /\ Len(last.ret) = 1
    /\ \E k \in 1..Len(env.fetch.markets) :
          /\ env.fetch.markets[k].accepting_orders
          /\ ~Eligible(env.fetch.markets[k])

\* the cap cuts the list: more markets pass the filters than are evaluated
C22_CapWitness ==
    /\ last.op = "predict_current_markets" /\ ~last.raised
    /\ Len(FilteredHere) > env.max_markets
    /\ Len(last.ret) = env.max_markets

\* ------------------------------------------------------------------ claims: run twice
\* the rows of both sides of a store
AllRows(st) == st.remote \o st.local

IsPrefix(a, b) == Len(a) <= Len(b) /\ SubSeq(b, 1, Len(a)) = a

\* the returned predictions of a run whose save does not raise
RunSaved == {k \in 1..Len(last.ret) : env.ios[k] # "fail"}

\* C23: a run with saving stores a Prediction record of its own for every market
\* it predicted, also when an unresolved record of that market is already stored:
\* the new records carry identifiers no stored record has, and the records stored
\* before are neither overwritten nor merged.
C23_RunsStoreSeparateRecords ==
    /\ \A i, j \in 1..Len(AllRows(store)) :
          i # j => AllRows(store)[i].id # AllRows(store)[j].id
    /\ (last.op = "run" /\ ~last.raised /\ last.save) =>
          /\ IsPrefix(last.before.remote, store.remote)
          /\ IsPrefix(last.before.local, store.local)
          /\ Rows(store) - Rows(last.before) = Cardinality(RunSaved)
          /\ \A k \in RunSaved : \E where \in {"remote", "local"} :
                \E i \in Len(last.before[where]) + 1..Len(store[where]) :
                    /\ store[where][i].market_id = last.ret[k].market_id
                    /\ store[where][i].actual_outcome = None
                    /\ \A j \in 1..Len(AllRows(last.before)) :
                          AllRows(last.before)[j].id # store[where][i].id

\* the second of two runs with saving on one market: two unresolved records of
\* the market, the older one as it was
C23_Witness ==
    /\ last.op = "run" /\ ~last.raised /\ last.save
    /\ Rows(last.before) = 1 /\ Rows(store) = 2
    /\ AllRows(store)[1].market_id = AllRows(store)[2].market_id
    /\ AllRows(store)[1].id # AllRows(store)[2].id
    /\ AllRows(store)[1].actual_outcome = None /\ AllRows(store)[2].actual_outcome = None

\* ------------------------------------------------------------------ claims: _request
\* the attempts made so far all failed with a RequestException
AllFailed == \A i \in 1..Len(last.sent) : env.outcomes[last.sent[i]] = "error"

\* what C24 says of every state of a call
C24_Retries ==
    /\ Len(last.sent) <= env.max_retries
    /\ \A i \in 1..Len(last.sent) : last.sent[i] = i - 1
    /\ \A i \in 1..Len(last.slept) : last.slept[i] = 2 ^ (i - 1)
    /\ last.pc = "try" /\ last.attempt < env.max_retries =>
          AllFailed /\ Len(last.slept) = Len(last.sent)
    /\ last.pc = "sleep" => AllFailed /\ Len(last.slept) = Len(last.sent) - 1
    /\ last.pc = "done" =>
          /\ Len(last.sent) > 0 => Len(last.slept) = Len(last.sent) - 1
          /\ last.ret[1] = "response" =>
                /\ env.outcomes[last.ret[2][2]] = "ok"
                /\ last.ret[2][2] = Len(last.sent) - 1
                /\ \A k \in 0..last.ret[2][2] - 1 : env.outcomes[k] = "error"
          /\ last.ret[1] = Raise =>
                /\ \A k \in 0..Len(last.sent) - 1 : env.outcomes[k] # "ok"
                /\ Len(last.sent) > 0 =>
                      last.ret[2] = <<env.outcomes[Len(last.sent) - 1], Len(last.sent) - 1>>
                /\ (\A k \in 0..env.max_retries - 1 : env.outcomes[k] = "error") =>
                      Len(last.sent) = env.max_retries

\* C24: _request makes at most max_retries attempts, returns the response of the
\* first successful attempt without a further attempt, and raises the last failure
\* when every attempt fails; after the failed attempt k (from 0) it sleeps 2^k
\* seconds before the next attempt, and it does not sleep after the final one.
\* The call always ends.
C24_BoundedRetriesWithBackoff ==
    /\ [](last.op = "_request" => C24_Retries)
    /\ <>(last.op = "_request" => last.pc = "done")

\* three attempts failed and the last failure is raised after sleeps of 1 and 2
C24_Witness ==
    /\ last.op = "_request" /\ last.pc = "done"
    /\ env.max_retries = 3
    /\ last.ret = <<Raise, <<"error", 2>> >>
    /\ last.slept = <<1, 2>>

\* the second attempt succeeds after one sleep of 1
C24_RetryWitness ==
    /\ last.op = "_request" /\ last.pc = "done"
    /\ last.ret = <<"response", <<"ok", 1>> >>
    /\ last.slept = <<1>>

\* ------------------------------------------------------------------ claims: pages
\* the page of this number (from 0) was answered with a next cursor
Carries(k) == ~PageAt(k).raises /\ Truthy(PageAt(k).next_cursor)

\* what C25 says of every state of a call
C25_Pages ==
    /\ Len(last.asked) <= env.max_pages
    /\ \A k \in 0..Len(last.asked) - 2 : Carries(k)
    /\ last.pc = "loop" => \A k \in 0..Len(last.asked) - 1 : Carries(k)
    /\ (last.pc = "done" /\ last.ret = "return") =>
          /\ last.all_markets = Len(last.asked)
          /\ \/ Len(last.asked) = env.max_pages
             \/ Len(last.asked) > 0 /\ ~Carries(Len(last.asked) - 1)
    /\ (last.pc = "done" /\ last.ret = Raise) =>
          Len(last.asked) > 0 /\ PageAt(Len(last.asked) - 1).raises

\* C25: get_all_markets always ends, after at most max_pages pages: it stops as
\* soon as a page carries no next cursor, and otherwise after max_pages pages,
\* also when the provider returns a cursor with every page.
C25_PagesAreBounded ==
    /\ [](last.op = "get_all_markets" => C25_Pages)
    /\ <>(last.op = "get_all_markets" => last.pc = "done")

\* every page carries a cursor and the call returns after max_pages pages
C25_Witness ==
    /\ last.op = "get_all_markets" /\ last.pc = "done" /\ last.ret = "return"
    /\ env.max_pages = 2
    /\ \A k \in 0..MaxPages - 1 : Carries(k)
    /\ last.all_markets = 2

\* the second page carries no cursor and the call returns before the cap
C25_StopWitness ==
    /\ last.op = "get_all_markets" /\ last.pc = "done" /\ last.ret = "return"
    /\ env.max_pages = 3
    /\ Len(last.asked) = 2

\* ------------------------------------------------------------------ claims: vectors
\* the dicts with the items of the current one, in any insertion order
Reordered ==
    {d \in Dicts : {d[i] : i \in 1..Len(d)}
                     = {env.features[i] : i \in 1..Len(env.features)}}

\* the items of the current dict as a set
Has(item) == \E i \in 1..Len(env.features) : env.features[i] = item

\* C26: to_model_input gives exactly one value per schema name, in schema order:
\* for a column sport_<s> 1.0 if <s> is the detected sport and 0.0 if not, for a
\* boolean feature 1.0 or 0.0, for a name the dict does not have or has with null
\* 0.0, for a number the number; the result is the same for every insertion order
\* of the dict's items.
C26_VectorFollowsSchema ==
    last.op = "to_model_input" =>
        /\ Len(last.ret) = Len(env.feature_names)
        /\ \A i \in 1..Len(env.feature_names) :
              LET name == env.feature_names[i]
              IN  /\ name[1] = "sport_" =>
                        (last.ret[i] = One <=> Has(<< <<"", "sport">>, <<"str", name[2]>> >>))
                  /\ name[1] = "sport_" => last.ret[i] \in {0, One}
                  /\ Has(<<name, <<"bool", 1>> >>) => last.ret[i] = One
                  /\ Has(<<name, <<"bool", 0>> >>) => last.ret[i] = 0
                  /\ Has(<<name, <<"none", 0>> >>) => last.ret[i] = 0
                  /\ (name[1] = "" /\ ~\E item \in FeatureValues : item[1] = name /\ Has(item))
                        => last.ret[i] = 0
                  /\ \A x \in 0..One : Has(<<name, <<"num", x>> >>) => last.ret[i] = x
        /\ \A d \in Reordered : to_model_input(d, env.feature_names) = last.ret

\* a schema of a feature and the sport column of the detected sport, and a dict
\* that has the sport first and the feature last
C26_Witness ==
    /\ last.op = "to_model_input"
    /\ env.feature_names = << <<"", "is_home_favorite">>, <<"sport_", "nba">> >>
    /\ Len(env.features) = 3
    /\ env.features[1] = << <<"", "sport">>, <<"str", "nba">> >>
    /\ env.features[3] = << <<"", "is_home_favorite">>, <<"bool", 0>> >>
    /\ last.ret = <<0, One>>

\* ------------------------------------------------------------------ claims: scoring runs
\* the market of the prediction is among the fetched ones and closed, and one of its
\* tokens is priced 1.0 or above 0.95
HasWinner(markets, p) ==
    LET m == Lookup(markets, p.market_id)
    IN  m # << >> /\ m[1].closed /\ ~NoWinner(m[1])

\* C28: a pending Prediction whose market is fetched with a resolved outcome is
\* never shut out for good by the limit, whatever else the store holds: no run on
\* such a store finds nothing pending.  (A run that finds nothing pending returns
\* the zero counters and leaves the store as it is, and so does every repetition
\* of it: the Prediction would never be resolved.)
C28_PendingIsNeverShutOut ==
    \A limit \in 1..MaxLimit, fetch \in Fetches, io \in RemoteIO :
        LET side == store[ReadFrom(env.connected, io)]
            r == score_pending_predictions(store, env.connected, limit, None, fetch, io)
        IN  (/\ ~fetch.raises
             /\ \E i \in 1..Len(side) :
                    /\ IsPending(side[i])
                    /\ HasWinner(get_sports_markets(fetch.markets), side[i]))
            => ~(~r.raised /\ r.ret = ZeroResults /\ r.store = store)

\* the rows of one side that a run turned from unresolved to resolved
Turned(where, after) ==
    {i \in 1..Len(store[where]) :
        IsPending(store[where][i]) /\ IsResolved(after[where][i])}

C30_NoSaveLostNoIdTwice ==
    (last.op = "_save_prediction_local" /\ \A w \in Writers : last.pc[w] = "done") =>
        /\ \A w \in Writers : \E i \in 1..Len(store.local) : store.local[i] = last.ret[w][1]
        /\ \A v, w \in Writers : v # w => last.ret[v][1].id # last.ret[w][1].id
        /\ \A i, j \in 1..Len(store.local) : i # j => store.local[i].id # store.local[j].id

\* ------------------------------------------------------------------ claims: two runs
\* the runs that wrote the three fields of the Prediction of this id
WritersOf(id) == {v \in Runs : id \in last.wrote[v]}

\* both runs read the Prediction as pending
ReadByAll(p) == \A v \in Runs : \E k \in 1..Len(last.pending[v]) : last.pending[v][k] = p

====
